---------------------------- MODULE Spec2Model ----------------------------
(***************************************************************************)
(* Availability fitness functions of the group-buying platform             *)
(* (fitness_functions.py) and the scripts that drive them.                 *)
(*                                                                         *)
(* Units.  Durations are in centiseconds (0.01 s): base_response_time 0.15 *)
(* is 15, the jitter random.uniform(0, 0.2) is 0..20, max_response_time    *)
(* 5.0 is 500.  A measured response_time is the time slept, base + jitter. *)
(* Probabilities are in thousandths: failure_rate 0.02 is 20, and a roll   *)
(* random.random() in [0, 1) is 0..999.  ServiceHealth.timestamp and       *)
(* AvailabilityResult.timestamp (wall-clock stamps) are not modelled.      *)
(***************************************************************************)
EXTENDS Integers, Sequences, FiniteSets, TLC

VARIABLES
    is_available,          \* MockService.is_available, per service
    base_response_time,    \* MockService.base_response_time, per service
    failure_rate,          \* MockService.failure_rate, per service
    changes,               \* configuration writes made so far (bounded)
    pc,                    \* position inside run_availability_tests
    sweep_draws,           \* the random draws the sweep took (history)
    service_healths,       \* run_availability_tests: result of the sweep
    critical_path_available, \* run_availability_tests: result of test 2
    concurrent_results,    \* run_availability_tests: result of test 3
    report,                \* the AvailabilityResult returned, or NoReport
    score_input,           \* argument of a direct calculate_availability_score call
    score_output,          \* its return value, or NoScore
    path_draws,            \* direct test_critical_path_availability call: draws taken
    path_samples,          \* ... the health of every step taken so far
    path_locals,           \* ... its locals path_successful, total_response_time
    path_result,           \* ... its return value, or NoResult
    health_arg,            \* direct test_service_health call: the name passed
    health_result,         \* ... its return value, or NoResult
    batch_num_requests,    \* direct test_concurrent_availability call: num_requests
    batch_tasks,           \* ... the tasks created, each with its state
    batch_order,           \* ... the tasks in the order they completed
    batch_results,         \* ... the dict returned, or NoResult
    args,                  \* test_github_actions.main: the parsed arguments
    dpc,                   \* ... the position of the driver
    iteration,             \* ... the loop counter of the workflow that runs
    workflow_results,      \* ... the results list of the workflow that runs
    conditions,            \* ... the conditions applied for the latest run
    latest_report,         \* ... what the latest run reported
    main_results,          \* ... main's dict of workflow verdicts
    exit_code,             \* the exit code of the process, or NoExit
    demo_pc,               \* run_demo.main: where it is, or "off"
    demo_result,           \* ... what the latest demo run reported
    demo_load              \* ... what the high-load demo measured

vars == <<is_available, base_response_time, failure_rate, changes, pc,
          sweep_draws, service_healths, critical_path_available,
          concurrent_results, report, score_input, score_output,
          path_draws, path_samples, path_locals, path_result,
          health_arg, health_result, batch_num_requests, batch_tasks,
          batch_order, batch_results,
          args, dpc, iteration, workflow_results, conditions,
          latest_report, main_results, exit_code,
          demo_pc, demo_result, demo_load>>

config == <<is_available, base_response_time, failure_rate>>
run_vars == <<pc, sweep_draws, service_healths, critical_path_available,
              concurrent_results, report>>
score_vars == <<score_input, score_output>>
path_vars == <<path_draws, path_samples, path_locals, path_result>>
call_vars == <<health_arg, health_result>>
batch_vars == <<batch_num_requests, batch_tasks, batch_order, batch_results>>
driver_vars == <<args, dpc, iteration, workflow_results, conditions,
                 latest_report, main_results, exit_code>>
demo_vars == <<demo_pc, demo_result, demo_load>>

---------------------------------------------------------------------------
(* Bounds of the model. *)

\* configuration writes explored after construction
MaxConfigChanges == 1
\* calls of one sweep whose random draw is not the nominal one
\* (failure roll misses, jitter 0)
MaxOffNominal == 1
\* samples in the argument of a direct calculate_availability_score call
MaxSamples == 3

---------------------------------------------------------------------------
(* The registry and the thresholds: AvailabilityFitnessFunctions.__init__ *)

\* self.services, in insertion order (the order every loop over it takes)
ServiceOrder ==
    << "group_buying_service", "order_service", "payment_service",
       "logistics_service", "notification_service", "database", "cache" >>

ServiceNames == { ServiceOrder[i] : i \in 1..Len(ServiceOrder) }

DefaultBaseResponseTime ==
    [ n \in ServiceNames |->
        CASE n = "group_buying_service" -> 15
          [] n = "order_service"        -> 20
          [] n = "payment_service"      -> 30
          [] n = "logistics_service"    -> 25
          [] n = "notification_service" -> 10
          [] n = "database"             -> 5
          [] n = "cache"                -> 2 ]

DefaultFailureRate ==
    [ n \in ServiceNames |->
        CASE n = "group_buying_service" -> 20
          [] n = "order_service"        -> 30
          [] n = "payment_service"      -> 50
          [] n = "logistics_service"    -> 40
          [] n = "notification_service" -> 10
          [] n = "database"             -> 10
          [] n = "cache"                -> 5 ]

\* thresholds['max_response_time'] = 5.0
max_response_time == 500
\* thresholds['max_failure_rate'] = 0.10
max_failure_rate == 100
\* thresholds['min_availability_score'] = 70
min_availability_score == 70
\* random.random() < 1.0 always: the scale of rolls and failure rates
RateScale == 1000
\* random.uniform(0, 0.2): the largest jitter
MaxJitter == 20

---------------------------------------------------------------------------
(* The random source.  A draw is what one simulate_request call takes from *)
(* the random module: its jitter and its failure roll.                     *)

Jitters == {0, MaxJitter}
Rolls == {0, RateScale - 1}
Draws == [roll : Rolls, jitter : Jitters]
NominalDraw == [roll |-> RateScale - 1, jitter |-> 0]

---------------------------------------------------------------------------
(* ServiceHealth and MockService *)

NoError == << >>

ServiceHealth(name, healthy, time, error) ==
    [name |-> name, is_healthy |-> healthy, response_time |-> time,
     error_message |-> error]

\* mutants of RequestFails: "and" for "or"; "<=" for "<"
RequestFailsAnd(available, rate, roll) == (~available) /\ roll < rate
RequestFailsInclusive(available, rate, roll) == (~available) \/ roll <= rate

\* the condition of the failure branch of simulate_request
RequestFails(available, rate, roll) == (~available) \/ roll < rate

\* mutant of simulate_request: is_available is not consulted
SimulateRequestIgnoringAvailability(name, available, base, rate, d) ==
    IF d.roll < rate
    THEN ServiceHealth(name, FALSE, base + d.jitter,
                       <<"Service", name, "is unavailable">>)
    ELSE ServiceHealth(name, TRUE, base + d.jitter, NoError)

\* MockService.simulate_request, on the service's fields and one draw
simulate_request(name, available, base, rate, d) ==
    IF RequestFails(available, rate, d.roll)
    THEN ServiceHealth(name, FALSE, base + d.jitter,
                       <<"Service", name, "is unavailable">>)
    ELSE ServiceHealth(name, TRUE, base + d.jitter, NoError)

\* mutant of test_service_health: an unknown name is answered as a
\* registered service that is down
TestServiceHealthUnknownAsDown(service_name, d) ==
    IF service_name \notin ServiceNames
    THEN ServiceHealth(service_name, FALSE, d.jitter,
                       <<"Service", service_name, "is unavailable">>)
    ELSE simulate_request(service_name, is_available[service_name],
                          base_response_time[service_name],
                          failure_rate[service_name], d)

\* AvailabilityFitnessFunctions.test_service_health
test_service_health(service_name, d) ==
    IF service_name \notin ServiceNames
    THEN ServiceHealth(service_name, FALSE, 0,
                       <<"Service", service_name, "not found">>)
    ELSE simulate_request(service_name, is_available[service_name],
                          base_response_time[service_name],
                          failure_rate[service_name], d)

---------------------------------------------------------------------------
(* Python float arithmetic.  calculate_availability_score computes in      *)
(* IEEE-754 doubles: int / int, float * int and float - float are each     *)
(* rounded to nearest, ties to even, on a 53-bit significand.  A           *)
(* non-negative double is [bits, exp]: bits its significand as a sequence  *)
(* of 0/1, most significant first, and exp the binary weight of the last   *)
(* bit; the empty sequence is 0.0.  Exponent range limits (overflow,       *)
(* subnormals) are never reached by the values computed here.              *)

\* significand width of a Python float
Precision == 53

FZero == [bits |-> << >>, exp |-> 0]

Zeros(k) == [i \in 1..k |-> 0]

StripZeros(b) ==
    IF \A i \in 1..Len(b) : b[i] = 0 THEN << >>
    ELSE LET first == CHOOSE i \in 1..Len(b) :
                          b[i] = 1 /\ \A j \in 1..(i - 1) : b[j] = 0
         IN  SubSeq(b, first, Len(b))

RECURSIVE BitsValue(_)
BitsValue(b) ==
    IF b = << >> THEN 0
    ELSE 2 * BitsValue(SubSeq(b, 1, Len(b) - 1)) + b[Len(b)]

\* Long arithmetic goes limb by limb: a limb is LimbBits bits of a bit
\* sequence, so that a limb times 100 stays a machine integer of the checker.
LimbBits == 16
LimbBase == 2 ^ LimbBits

ToLimbs(b) ==
    LET n      == (Len(b) + LimbBits - 1) \div LimbBits
        padded == Zeros(n * LimbBits - Len(b)) \o b
    IN  [j \in 1..n |->
            BitsValue(SubSeq(padded, (j - 1) * LimbBits + 1, j * LimbBits))]

FromLimbs(l) ==
    [i \in 1..(Len(l) * LimbBits) |->
        (l[((i - 1) \div LimbBits) + 1]
            \div (2 ^ (LimbBits - 1 - ((i - 1) % LimbBits)))) % 2]

\* b + 1
Increment(b) ==
    IF \A i \in 1..Len(b) : b[i] = 1 THEN <<1>> \o Zeros(Len(b))
    ELSE LET p == CHOOSE i \in 1..Len(b) :
                      b[i] = 0 /\ \A j \in (i + 1)..Len(b) : b[j] = 1
         IN  [i \in 1..Len(b) |->
                 IF i < p THEN b[i] ELSE IF i = p THEN 1 ELSE 0]

\* the exact value b * 2^e (b without leading zeros) rounded to a double
RoundNearestEven(b, e) ==
    IF Len(b) <= Precision THEN [bits |-> b, exp |-> e]
    ELSE LET keep   == SubSeq(b, 1, Precision)
             guard  == b[Precision + 1]
             sticky == \E i \in (Precision + 2)..Len(b) : b[i] = 1
             up     == guard = 1 /\ (sticky \/ keep[Precision] = 1)
             r      == IF up THEN Increment(keep) ELSE keep
             e2     == e + (Len(b) - Precision)
         IN  IF Len(r) > Precision
             THEN [bits |-> SubSeq(r, 1, Precision), exp |-> e2 + 1]
             ELSE [bits |-> r, exp |-> e2]

\* long division r / n (r < n < LimbBase / 2): k more quotient limbs after
\* acc, then the remainder
RECURSIVE DivLimbs(_, _, _, _)
DivLimbs(r, n, k, acc) ==
    IF k = 0 THEN [limbs |-> acc, rem |-> r]
    ELSE DivLimbs((r * LimbBase) % n, n, k - 1,
                  Append(acc, (r * LimbBase) \div n))

\* quotient limbs computed after the integer part: 5 * 16 bits, at least
\* 64 significant ones for a divisor below 2^15
FracLimbs == 5

\* int / int (true division), 0 <= h < LimbBase, 0 < n < LimbBase / 2
FDiv(h, n) ==
    IF h = 0 THEN FZero
    ELSE LET q    == DivLimbs(h % n, n, FracLimbs, <<h \div n>>)
             bits == StripZeros(FromLimbs(q.limbs))
         IN  \* one more bit stands for a remainder that is not zero
             RoundNearestEven(Append(bits, IF q.rem = 0 THEN 0 ELSE 1),
                              -(FracLimbs * LimbBits) - 1)

\* the first j limbs of l times c, plus carry
RECURSIVE MulLimbs(_, _, _, _)
MulLimbs(l, c, j, carry) ==
    IF j = 0 THEN <<carry>>
    ELSE LET d == l[j] * c + carry
         IN  Append(MulLimbs(l, c, j - 1, d \div LimbBase), d % LimbBase)

\* float * int, 0 < c < LimbBase / 2
FMul(x, c) ==
    IF x.bits = << >> THEN FZero
    ELSE LET l == ToLimbs(x.bits)
         IN  RoundNearestEven(
                 StripZeros(FromLimbs(MulLimbs(l, c, Len(l), 0))), x.exp)

\* x and y, both non-zero, as bit sequences of one length and one weight
CommonExp(x, y) == IF x.exp < y.exp THEN x.exp ELSE y.exp
Widened(x, e) == x.bits \o Zeros(x.exp - e)
Aligned(x, y) ==
    LET e  == CommonExp(x, y)
        wx == Widened(x, e)
        wy == Widened(y, e)
        l  == IF Len(wx) > Len(wy) THEN Len(wx) ELSE Len(wy)
    IN  [a |-> Zeros(l - Len(wx)) \o wx, b |-> Zeros(l - Len(wy)) \o wy,
         exp |-> e]

\* x < y
FLess(x, y) ==
    IF y.bits = << >> THEN FALSE
    ELSE IF x.bits = << >> THEN TRUE
    ELSE LET p == Aligned(x, y)
         IN  \E i \in 1..Len(p.a) :
                /\ p.a[i] < p.b[i]
                /\ \A j \in 1..(i - 1) : p.a[j] = p.b[j]

\* the first j limbs of a minus those of b minus borrow
RECURSIVE SubLimbs(_, _, _, _)
SubLimbs(a, b, j, borrow) ==
    IF j = 0 THEN << >>
    ELSE LET d == a[j] - b[j] - borrow
         IN  Append(SubLimbs(a, b, j - 1, IF d < 0 THEN 1 ELSE 0),
                    (d + LimbBase) % LimbBase)

\* float - float, for x >= y
FSub(x, y) ==
    IF y.bits = << >> THEN x
    ELSE LET p == Aligned(x, y)
             a == ToLimbs(p.a)
             b == ToLimbs(p.b)
             d == StripZeros(FromLimbs(SubLimbs(a, b, Len(a), 0)))
         IN  IF d = << >> THEN FZero ELSE RoundNearestEven(d, p.exp)

\* int(x) for x >= 0: the integer part
FInt(x) ==
    IF x.exp >= 0 THEN BitsValue(x.bits \o Zeros(x.exp))
    ELSE IF Len(x.bits) + x.exp <= 0 THEN 0
    ELSE BitsValue(SubSeq(x.bits, 1, Len(x.bits) + x.exp))

---------------------------------------------------------------------------
(* AvailabilityFitnessFunctions.calculate_availability_score *)

\* a health whose response time exceeds the threshold
TooSlow(health) == health.response_time > max_response_time

\* mutant of ScoreOfCounts: the max(0, .) is missing
ScoreOfCountsUnclamped(total_services, healthy_services, slow_services) ==
    LET base_score == FMul(FDiv(healthy_services, total_services), 100)
        penalty    == FMul(FDiv(slow_services, total_services), 20)
    IN  IF FLess(base_score, penalty)
        THEN 0 - FInt(FSub(penalty, base_score))
        ELSE FInt(FSub(base_score, penalty))

\* int(base_score - penalty), then max(0, .): int() truncates towards zero,
\* so every negative difference ends at 0
ScoreOfCounts(total_services, healthy_services, slow_services) ==
    LET base_score == FMul(FDiv(healthy_services, total_services), 100)
        penalty    == FMul(FDiv(slow_services, total_services), 20)
    IN  IF FLess(base_score, penalty) THEN 0
        ELSE FInt(FSub(base_score, penalty))

\* the sizes of the dicts the model passes: the registry, or MaxSamples
MaxTotal ==
    IF MaxSamples > Len(ServiceOrder) THEN MaxSamples ELSE Len(ServiceOrder)

\* ScoreOfCounts, evaluated once for every count the model meets
ScoreTable ==
    [c \in {t \in (1..MaxTotal) \X (0..MaxTotal) \X (0..MaxTotal) :
                t[2] <= t[1] /\ t[3] <= t[1]} |->
        ScoreOfCounts(c[1], c[2], c[3])] @@ << >>

calculate_availability_score(healths) ==
    IF DOMAIN healths = {} THEN 0
    ELSE LET total_services   == Cardinality(DOMAIN healths)
             healthy_services ==
                 Cardinality({k \in DOMAIN healths : healths[k].is_healthy})
             slow_services    ==
                 Cardinality({k \in DOMAIN healths : TooSlow(healths[k])})
         IN  ScoreTable[<<total_services, healthy_services, slow_services>>]

---------------------------------------------------------------------------
(* AvailabilityFitnessFunctions.test_all_services_health *)

NoHealths == [n \in {} |-> 0]

\* the sets of calls of one sweep that may draw off the nominal draw
OffNominalSets ==
    {P \in SUBSET ServiceNames : Cardinality(P) <= MaxOffNominal}

OffNominalDraws == Draws \ {NominalDraw}

\* the draws of a sweep that leaves the nominal draw on the calls in P
SweepDraws(P) ==
    { [n \in ServiceNames |-> IF n \in P THEN f[n] ELSE NominalDraw] :
          f \in [P -> OffNominalDraws] }

\* results[service_name] = self.test_service_health(service_name), for
\* every registered service
test_all_services_health(draws) ==
    [n \in ServiceNames |-> test_service_health(n, draws[n])]

---------------------------------------------------------------------------
(* AvailabilityFitnessFunctions.test_critical_path_availability *)

steps ==
    << [step_name |-> "Create group cart",
        service_name |-> "group_buying_service"],
       [step_name |-> "Add products to cart",
        service_name |-> "group_buying_service"],
       [step_name |-> "Check minimum participants",
        service_name |-> "database"],
       [step_name |-> "Generate consolidated order",
        service_name |-> "order_service"],
       [step_name |-> "Process group payment",
        service_name |-> "payment_service"],
       [step_name |-> "Coordinate logistics",
        service_name |-> "logistics_service"],
       [step_name |-> "Send notifications",
        service_name |-> "notification_service"] >>

\* path_successful = True; total_response_time = 0
PathStart == [path_successful |-> TRUE, total_response_time |-> 0]

\* mutant of PathAdvance: the flag is overwritten, not accumulated
PathAdvanceOverwrite(acc, health) ==
    [path_successful     |-> health.is_healthy,
     total_response_time |-> acc.total_response_time + health.response_time]

\* mutant of PathAdvance: the response time of the step is not added
PathAdvanceUntimed(acc, health) ==
    [path_successful     |-> acc.path_successful /\ health.is_healthy,
     total_response_time |-> acc.total_response_time]

\* the body of the loop, on the locals and the health of the step
PathAdvance(acc, health) ==
    [path_successful     |-> acc.path_successful /\ health.is_healthy,
     total_response_time |-> acc.total_response_time + health.response_time]

\* mutant of PathResult: "<=" for "<"
PathResultInclusive(acc) ==
    acc.path_successful /\ acc.total_response_time <= max_response_time

\* return path_successful and total_response_time < max_response_time
PathResult(acc) ==
    acc.path_successful /\ acc.total_response_time < max_response_time

\* the values the locals can have after the first k steps, over every draw
\* of every step
RECURSIVE PathAccs(_)
PathAccs(k) ==
    IF k = 0 THEN {PathStart}
    ELSE { PathAdvance(acc, health) :
               acc \in PathAccs(k - 1),
               health \in { test_service_health(steps[k].service_name, d) :
                               d \in Draws } }

---------------------------------------------------------------------------
(* AvailabilityFitnessFunctions.test_concurrent_availability *)

\* run_availability_tests calls it with the default num_requests
DefaultNumRequests == 10

NoConcurrent == [successful_requests |-> 0, num_requests |-> 0]

\* what one task of the batch can return: _async_service_request on a
\* service chosen by random.choice, over every draw
TaskHealths ==
    { test_service_health(n, d) : n \in ServiceNames, d \in Draws }

\* the values successful_requests can have for a batch of k tasks
RECURSIVE SuccessCounts(_, _)
SuccessCounts(k, outcomes) ==
    IF k = 0 THEN {0}
    ELSE { c + (IF h THEN 1 ELSE 0) :
               c \in SuccessCounts(k - 1, outcomes), h \in outcomes }

\* the returned dict; total_time and requests_per_second are wall-clock
\* measurements and are left out
ConcurrentResults(successful, num_requests) ==
    [successful_requests |-> successful, num_requests |-> num_requests]

\* mutant of RateTooLow: "<=" for "<"
RateTooLowInclusive(results) ==
    results.successful_requests * RateScale
        <= (RateScale - max_failure_rate) * results.num_requests

\* success_rate < 1 - max_failure_rate, with success_rate =
\* successful_requests / num_requests
RateTooLow(results) ==
    results.successful_requests * RateScale
        < (RateScale - max_failure_rate) * results.num_requests

---------------------------------------------------------------------------
(* AvailabilityFitnessFunctions.run_availability_tests: scoring *)

Issue(kind, name, error, value) ==
    [kind |-> kind, name |-> name, error |-> error, value |-> value]

CriticalPathIssue == Issue("Critical path is not available", "", NoError, 0)

\* f"{success_rate:.1%}": the rate in tenths of a percent
ConcurrentIssue(results) ==
    Issue("Concurrent success rate too low", "", NoError,
          (results.successful_requests * RateScale) \div results.num_requests)

UnhealthyIssue(health) ==
    Issue("is unhealthy", health.name, health.error_message, 0)

SlowIssue(health) ==
    Issue("is too slow", health.name, NoError, health.response_time)

\* mutant of ServiceIssues: the elif is an if, so that a sample both
\* unhealthy and too slow is mentioned twice
ServiceIssuesBoth(healths) ==
    LET RECURSIVE From(_)
        From(i) ==
            IF i > Len(ServiceOrder) THEN << >>
            ELSE LET health == healths[ServiceOrder[i]]
                 IN  (IF ~health.is_healthy
                      THEN <<UnhealthyIssue(health)>> ELSE << >>)
                     \o (IF TooSlow(health)
                         THEN <<SlowIssue(health)>> ELSE << >>)
                     \o From(i + 1)
    IN  From(1)

\* the loop over service_healths.items(), in the order of the registry
ServiceIssues(healths) ==
    LET mentioned ==
            SelectSeq(ServiceOrder,
                      LAMBDA n : (~healths[n].is_healthy) \/ TooSlow(healths[n]))
    IN  [i \in 1..Len(mentioned) |->
            IF ~healths[mentioned[i]].is_healthy
            THEN UnhealthyIssue(healths[mentioned[i]])
            ELSE SlowIssue(healths[mentioned[i]])]

CriticalPathPenalty == 30
ConcurrentPenalty == 20

\* the two "-=" statements, applied to the score of the sweep
PenalisedScore(availability_score, path_available, results) ==
    availability_score
      - (IF ~path_available THEN CriticalPathPenalty ELSE 0)
      - (IF RateTooLow(results) THEN ConcurrentPenalty ELSE 0)

\* availability_score after the two "-=" statements
FinalScore(healths, path_available, results) ==
    PenalisedScore(calculate_availability_score(healths), path_available,
                   results)

\* mutant of IsHealthy: ">" for ">="
IsHealthyStrict(availability_score) == availability_score > min_availability_score

IsHealthy(availability_score) == availability_score >= min_availability_score

AvailabilityResult(healths, path_available, results) ==
    LET availability_score == FinalScore(healths, path_available, results)
    IN  [overall_score |-> availability_score,
         is_healthy |-> IsHealthy(availability_score),
         services |-> healths,
         critical_path_available |-> path_available,
         issues |-> (IF ~path_available THEN <<CriticalPathIssue>> ELSE << >>)
                    \o (IF RateTooLow(results)
                        THEN <<ConcurrentIssue(results)>> ELSE << >>)
                    \o ServiceIssues(healths)]

NoReport ==
    [overall_score |-> 0, is_healthy |-> FALSE, services |-> NoHealths,
     critical_path_available |-> FALSE, issues |-> << >>]

---------------------------------------------------------------------------
(* The state after construction: AvailabilityFitnessFunctions.__init__ and *)
(* MockService.__init__                                                    *)

NoRun ==
    /\ pc = "idle"
    /\ sweep_draws = NoHealths
    /\ service_healths = NoHealths
    /\ critical_path_available = FALSE
    /\ concurrent_results = NoConcurrent
    /\ report = NoReport

NoScore == << >>

\* no direct call of test_critical_path_availability is under way
NoResult == << >>
NoPathCall ==
    /\ path_draws = << >>
    /\ path_samples = << >>
    /\ path_locals = PathStart
    /\ path_result = NoResult

\* no direct call of test_service_health or test_concurrent_availability
\* is under way
NoCall ==
    /\ health_arg = ""
    /\ health_result = NoResult
NoBatch ==
    /\ batch_num_requests = 0
    /\ batch_tasks = << >>
    /\ batch_order = << >>
    /\ batch_results = NoResult

\* test_github_actions.main is not running
NoArgs == [workflow |-> "", scenario |-> "", iterations |-> 0,
           alert_threshold |-> 0]
NoConditions == [workflow |-> "", scenario |-> ""]
NoExit == << >>
NoSummary == [overall_score |-> 0, is_healthy |-> FALSE,
              critical_path_available |-> FALSE]
NoDriver ==
    /\ args = NoArgs
    /\ dpc = "off"
    /\ iteration = 0
    /\ workflow_results = << >>
    /\ conditions = NoConditions
    /\ latest_report = NoSummary
    /\ main_results = << >>
    /\ exit_code = NoExit

\* run_demo.main is not running
NoDemo ==
    /\ demo_pc = "off"
    /\ demo_result = NoSummary
    /\ demo_load = NoConcurrent

Init ==
    /\ is_available = [n \in ServiceNames |-> TRUE]
    /\ base_response_time = DefaultBaseResponseTime
    /\ failure_rate = DefaultFailureRate
    /\ changes = 0
    /\ NoRun
    /\ score_input = NoHealths
    /\ score_output = NoScore
    /\ NoPathCall
    /\ NoCall
    /\ NoBatch
    /\ NoDemo
    /\ NoDriver

---------------------------------------------------------------------------
(* Scenario code: writes of the configuration between runs *)

CanConfigure == pc = "idle" /\ changes < MaxConfigChanges

\* names a caller passes to simulate_service_failure
CallerNames == ServiceNames \cup {"nonexistent_service"}

\* simulate_service_failure(service_name, available), which calls
\* MockService.set_availability on a registered service only
simulate_service_failure(service_name, available) ==
    /\ CanConfigure
    /\ is_available' =
           IF service_name \in ServiceNames
           THEN [is_available EXCEPT ![service_name] = available]
           ELSE is_available
    /\ changes' = changes + 1
    /\ UNCHANGED <<base_response_time, failure_rate, run_vars, score_vars,
                   path_vars, call_vars, batch_vars, driver_vars, demo_vars>>

\* base response times the scenario code writes: 3.0 (the degraded test);
\* 4.1, which puts the critical path of an otherwise default registry at
\* max_response_time exactly; and max_response_time itself, where the jitter
\* decides whether a sample is too slow
BaseTimes == {300, 410, max_response_time}

\* the services whose base response time the scenario code writes
SlowedServices == {"payment_service", "logistics_service", "order_service"}

\* fitness_functions.services[name].base_response_time = t
SetBaseResponseTime(name, t) ==
    /\ CanConfigure
    /\ base_response_time' = [base_response_time EXCEPT ![name] = t]
    /\ changes' = changes + 1
    /\ UNCHANGED <<is_available, failure_rate, run_vars, score_vars,
                   path_vars, call_vars, batch_vars, driver_vars, demo_vars>>

\* test_degraded_system_scenario:
\*     services['payment_service'].base_response_time = 3.0
\*     services['logistics_service'].base_response_time = 2.5
SetDegradedBaseTimes ==
    /\ CanConfigure
    /\ base_response_time' =
           [base_response_time EXCEPT !["payment_service"] = 300,
                                      !["logistics_service"] = 250]
    /\ changes' = changes + 1
    /\ UNCHANGED <<is_available, failure_rate, run_vars, score_vars,
                   path_vars, call_vars, batch_vars, driver_vars, demo_vars>>

\* failure rates the scenario code writes: 0.0, 0.001 and 1.0
FailureRates == {0, 1, RateScale}

\* for service_name in fitness_functions.services:
\*     fitness_functions.services[service_name].failure_rate = rate
SetFailureRates(rate) ==
    /\ CanConfigure
    /\ failure_rate' = [n \in ServiceNames |-> rate]
    /\ changes' = changes + 1
    /\ UNCHANGED <<is_available, base_response_time, run_vars, score_vars,
                   path_vars, call_vars, batch_vars, driver_vars, demo_vars>>

---------------------------------------------------------------------------
(* run_availability_tests, one action for each of its three tests and one  *)
(* for the scoring and the return                                          *)

\* Test 1: service_healths = self.test_all_services_health()
RunSweep ==
    /\ pc = "idle"
    /\ \E P \in OffNominalSets : \E draws \in SweepDraws(P) :
          /\ sweep_draws' = draws
          /\ service_healths' = test_all_services_health(draws)
    /\ pc' = "path"
    /\ UNCHANGED <<config, changes, critical_path_available,
                   concurrent_results, report, score_vars,
                   path_vars, call_vars, batch_vars, driver_vars, demo_vars>>

\* Test 2: critical_path_available = self.test_critical_path_availability()
RunCriticalPath ==
    /\ pc = "path"
    /\ \E acc \in PathAccs(Len(steps)) :
          critical_path_available' = PathResult(acc)
    /\ pc' = "concurrent"
    /\ UNCHANGED <<config, changes, sweep_draws, service_healths,
                   concurrent_results, report, score_vars,
                   path_vars, call_vars, batch_vars, driver_vars, demo_vars>>

\* Test 3: concurrent_results = self.test_concurrent_availability()
RunConcurrent ==
    /\ pc = "concurrent"
    /\ \E c \in SuccessCounts(DefaultNumRequests,
                              {h.is_healthy : h \in TaskHealths}) :
          concurrent_results' = ConcurrentResults(c, DefaultNumRequests)
    /\ pc' = "score"
    /\ UNCHANGED <<config, changes, sweep_draws, service_healths,
                   critical_path_available, report, score_vars,
                   path_vars, call_vars, batch_vars, driver_vars, demo_vars>>

\* the score, the issues and the returned AvailabilityResult
RunScore ==
    /\ pc = "score"
    /\ report' = AvailabilityResult(service_healths, critical_path_available,
                                    concurrent_results)
    /\ pc' = "done"
    /\ UNCHANGED <<config, changes, sweep_draws, service_healths,
                   critical_path_available, concurrent_results, score_vars,
                   path_vars, call_vars, batch_vars, driver_vars, demo_vars>>

\* the caller has read the result; the locals of the run are gone
Finish ==
    /\ pc = "done"
    /\ pc' = "idle"
    /\ sweep_draws' = NoHealths
    /\ service_healths' = NoHealths
    /\ critical_path_available' = FALSE
    /\ concurrent_results' = NoConcurrent
    /\ report' = NoReport
    /\ UNCHANGED <<config, changes, score_vars,
                   path_vars, call_vars, batch_vars, driver_vars, demo_vars>>

Next ==
    \/ \E n \in CallerNames : \E b \in BOOLEAN : simulate_service_failure(n, b)
    \/ \E n \in SlowedServices : \E t \in BaseTimes : SetBaseResponseTime(n, t)
    \/ \E r \in FailureRates : SetFailureRates(r)
    \/ SetDegradedBaseTimes
    \/ RunSweep
    \/ RunCriticalPath
    \/ RunConcurrent
    \/ RunScore
    \/ Finish

Spec == Init /\ [][Next]_vars

---------------------------------------------------------------------------
(* Properties of run_availability_tests (specification Spec) *)

Returned == pc = "done"
Swept == pc \in {"path", "concurrent", "score", "done"}

AllSweptHealthyAndFast(r) ==
    \A n \in ServiceNames :
        r.services[n].is_healthy /\ ~TooSlow(r.services[n])

\* C1: the report returned by run_availability_tests has overall_score in
\* [0,100], whatever the configuration, the failure rolls and the latencies.
\* The code subtracts the two penalties after the clamp of
\* calculate_availability_score, so the property does not hold.
C1_ReportScoreInRange ==
    Returned => report.overall_score \in 0..100

\* C3: in every returned report, is_healthy is true if and only if
\* overall_score is at least min_availability_score (70).
C3_HealthyIffScoreAtLeastThreshold ==
    Returned => (report.is_healthy <=> report.overall_score >= 70)

\* a report exactly on the threshold, and healthy
C3_Witness ==
    Returned /\ report.overall_score = 70 /\ report.is_healthy

\* C4: with group_buying_service forced unavailable, every report has
\* critical_path_available = false, is_healthy = false and
\* overall_score < 80.
C4_CriticalServiceDown ==
    (Returned /\ ~is_available["group_buying_service"]) =>
        /\ ~report.critical_path_available
        /\ ~report.is_healthy
        /\ report.overall_score < 80

\* group_buying_service is down, every other sample of the sweep is healthy
C4_Witness ==
    /\ Returned
    /\ ~is_available["group_buying_service"]
    /\ \A n \in ServiceNames \ {"group_buying_service"} :
           report.services[n].is_healthy
    /\ ~report.critical_path_available

\* the entry of the issues list for a service found unavailable
UnavailableIssue(n) ==
    Issue("is unhealthy", n, <<"Service", n, "is unavailable">>, 0)

\* C5: a registered service forced unavailable gives an unhealthy sample on
\* every later call, whatever the draw, and the report of
\* run_availability_tests has an issues entry naming it as unhealthy.
C5_ForcedUnavailable ==
    \A n \in ServiceNames :
        ~is_available[n] =>
            /\ \A d \in Draws : ~test_service_health(n, d).is_healthy
            /\ Swept => ~service_healths[n].is_healthy
            /\ Returned =>
                  /\ ~report.services[n].is_healthy
                  /\ \E i \in 1..Len(report.issues) :
                         report.issues[i] = UnavailableIssue(n)

\* a report made while a service that is on no critical-path step is down
C5_Witness ==
    /\ Returned
    /\ ~is_available["cache"]
    /\ \E i \in 1..Len(report.issues) : report.issues[i].name = "cache"

\* C6, as claimed: every sample of the sweep healthy and none too slow gives
\* overall_score = 100 and is_healthy = true.
C6_SweepAloneDecides ==
    (Returned /\ AllSweptHealthyAndFast(report)) =>
        (report.overall_score = 100 /\ report.is_healthy)

\* C6, amended: every sample of the sweep healthy and none too slow, the
\* critical path available and the concurrent success rate not below
\* 1 - max_failure_rate give overall_score = 100 and is_healthy = true.
C6_AllThreeTestsDecide ==
    ( /\ Returned
      /\ AllSweptHealthyAndFast(report)
      /\ report.critical_path_available
      /\ concurrent_results.successful_requests * 10
             >= 9 * concurrent_results.num_requests ) =>
        (report.overall_score = 100 /\ report.is_healthy)

\* a perfect report whose concurrent batch was exactly on the threshold
C6_Witness ==
    /\ Returned
    /\ AllSweptHealthyAndFast(report)
    /\ report.critical_path_available
    /\ concurrent_results.successful_requests = 9
    /\ report.overall_score = 100

CleanConfiguration ==
    /\ \A n \in ServiceNames : is_available[n] /\ failure_rate[n] = 0
    /\ base_response_time = DefaultBaseResponseTime

\* C8: with every service available, failure probability 0 and the default
\* base latencies, every run gives the same verdict for every jitter: all
\* samples healthy, the critical path available, score 100, healthy, and no
\* issues.
C8_CleanRunIsDeterministic ==
    (CleanConfiguration /\ Swept) =>
        /\ \A n \in ServiceNames : service_healths[n].is_healthy
        /\ pc \in {"concurrent", "score", "done"} => critical_path_available
        /\ pc \in {"score", "done"} =>
               concurrent_results.successful_requests
                   = concurrent_results.num_requests
        /\ Returned =>
               /\ report.critical_path_available
               /\ report.overall_score = 100
               /\ report.is_healthy
               /\ report.issues = << >>

\* a clean run whose sweep drew the largest jitter, and one whose sweep drew
\* the lowest roll
C8_Witness ==
    /\ Returned
    /\ CleanConfiguration
    /\ \E n \in ServiceNames :
           sweep_draws[n].jitter = MaxJitter \/ sweep_draws[n].roll = 0

\* C10: a sample is healthy if and only if the service is available and its
\* failure roll does not succeed; a healthy sample has no error message.  So
\* an unavailable service is unhealthy even when its roll does not succeed,
\* failure probability 1 is always unhealthy, and an available service with
\* failure probability 0 is always healthy.
C10_HealthyIffAvailableAndNoFailure ==
    Swept =>
        \A n \in ServiceNames :
            /\ service_healths[n].is_healthy
                   <=> (is_available[n]
                        /\ ~(sweep_draws[n].roll < failure_rate[n]))
            /\ service_healths[n].is_healthy
                   <=> service_healths[n].error_message = << >>
            /\ failure_rate[n] = 1000 => ~service_healths[n].is_healthy
            /\ (is_available[n] /\ failure_rate[n] = 0)
                   => service_healths[n].is_healthy

\* an unavailable service sampled with a roll that does not succeed
C10_Witness ==
    /\ Swept
    /\ \E n \in ServiceNames :
           /\ ~is_available[n]
           /\ ~(sweep_draws[n].roll < failure_rate[n])
           /\ ~service_healths[n].is_healthy

\* a freshly constructed instance: nothing has written the configuration
FreshConfiguration ==
    /\ changes = 0
    /\ \A n \in ServiceNames : is_available[n]
    /\ base_response_time = DefaultBaseResponseTime
    /\ failure_rate = DefaultFailureRate

\* C15: on a fresh instance with the default configuration,
\* run_availability_tests reports is_healthy = true,
\* critical_path_available = true and overall_score >= 80.  The default
\* failure probabilities are not 0, so a sample can fail and the property
\* does not hold.
C15_FreshInstanceIsHealthy ==
    (Returned /\ FreshConfiguration) =>
        /\ report.is_healthy
        /\ report.critical_path_available
        /\ report.overall_score >= 80

\* the configuration of test_degraded_system_scenario
DegradedConfiguration ==
    /\ \A n \in ServiceNames : is_available[n]
    /\ base_response_time =
           [DefaultBaseResponseTime EXCEPT !["payment_service"] = 300,
                                           !["logistics_service"] = 250]
    /\ failure_rate = DefaultFailureRate

\* C16: with payment_service at 3.0 s and logistics_service at 2.5 s on an
\* otherwise fresh instance, every report has at least one issue and an
\* overall_score below 100.
C16_DegradedRunHasIssues ==
    (Returned /\ DegradedConfiguration) =>
        /\ Len(report.issues) > 0
        /\ report.overall_score < 100

\* a degraded run whose samples are all healthy: the critical path alone,
\* 6.15 s or more, is the issue
C16_Witness ==
    /\ Returned
    /\ DegradedConfiguration
    /\ \A n \in ServiceNames : report.services[n].is_healthy
    /\ concurrent_results.successful_requests = concurrent_results.num_requests
    /\ report.issues = <<CriticalPathIssue>>
    /\ report.overall_score = 70

\* C17: a fresh instance registers exactly 7 mock services, among them
\* group_buying_service and payment_service, all available, and its
\* max_response_time threshold is 3.0.  The threshold of the code is 5.0,
\* so the property does not hold.
C17_FreshRegistryAndThreshold ==
    changes = 0 =>
        /\ Cardinality(DOMAIN is_available) = 7
        /\ {"group_buying_service", "payment_service"}
               \subseteq DOMAIN is_available
        /\ \A n \in DOMAIN is_available : is_available[n]
        /\ max_response_time = 300

\* what holds of a fresh instance: C17 with the threshold of the code, 5.0
FreshRegistryAsBuilt ==
    changes = 0 =>
        /\ Cardinality(DOMAIN is_available) = 7
        /\ {"group_buying_service", "payment_service"}
               \subseteq DOMAIN is_available
        /\ \A n \in DOMAIN is_available : is_available[n]
        /\ max_response_time = 500

\* the entries of the issues list of kind k about service n
IssuesOf(issues, k, n) ==
    { i \in 1..Len(issues) : issues[i].kind = k /\ issues[i].name = n }

\* C21: in the report of run_availability_tests the issues list matches the
\* detected conditions: one "Critical path is not available" entry iff
\* critical_path_available is false; one low-concurrent-success-rate entry
\* iff the success rate of the batch is below 1 - max_failure_rate; for each
\* sample of the sweep one "is unhealthy" entry if it is unhealthy, else one
\* "is too slow" entry if its latency exceeds max_response_time, else none;
\* and nothing else. The score is that of the sweep less 30 iff the first
\* condition holds and less 20 iff the second does.
C21_IssuesMatchConditions ==
    Returned =>
        LET issues == report.issues
            path_down == ~critical_path_available
            rate_low ==
                concurrent_results.successful_requests * 1000
                    < 900 * concurrent_results.num_requests
            unhealthy(n) == ~service_healths[n].is_healthy
            slow(n) == service_healths[n].response_time > 500
            mentioned == { n \in ServiceNames : unhealthy(n) \/ slow(n) }
        IN  /\ report.critical_path_available = critical_path_available
            /\ Cardinality(IssuesOf(issues, "Critical path is not available", ""))
                   = (IF path_down THEN 1 ELSE 0)
            /\ Cardinality(IssuesOf(issues, "Concurrent success rate too low", ""))
                   = (IF rate_low THEN 1 ELSE 0)
            /\ \A n \in ServiceNames :
                   /\ Cardinality(IssuesOf(issues, "is unhealthy", n))
                          = (IF unhealthy(n) THEN 1 ELSE 0)
                   /\ Cardinality(IssuesOf(issues, "is too slow", n))
                          = (IF ~unhealthy(n) /\ slow(n) THEN 1 ELSE 0)
            /\ Len(issues) = (IF path_down THEN 1 ELSE 0)
                               + (IF rate_low THEN 1 ELSE 0)
                               + Cardinality(mentioned)
            /\ report.overall_score =
                   calculate_availability_score(service_healths)
                       - (IF path_down THEN 30 ELSE 0)
                       - (IF rate_low THEN 20 ELSE 0)

\* a report with the path entry, the rate entry and a sample that is both
\* unhealthy and too slow
C21_Witness ==
    /\ Returned
    /\ ~critical_path_available
    /\ concurrent_results.successful_requests < 9
    /\ \E n \in ServiceNames :
           /\ ~service_healths[n].is_healthy
           /\ service_healths[n].response_time > max_response_time
    /\ Len(report.issues) >= 3

---------------------------------------------------------------------------
(* test_critical_path_availability called on its own, one step of its      *)
(* loop at a time (specification SpecPath)                                 *)

\* the draws a call may still take: off the nominal draw on at most
\* MaxOffNominal steps
StepDraws ==
    IF Cardinality({i \in DOMAIN path_draws : path_draws[i] # NominalDraw})
           < MaxOffNominal
    THEN Draws ELSE {NominalDraw}

\* path_successful = True; total_response_time = 0
PathCall ==
    /\ pc = "idle"
    /\ pc' = "cp_loop"
    /\ path_draws' = << >>
    /\ path_samples' = << >>
    /\ path_locals' = PathStart
    /\ path_result' = NoResult
    /\ UNCHANGED <<config, changes, sweep_draws, service_healths,
                   critical_path_available, concurrent_results, report,
                   score_vars, driver_vars, call_vars,
                   batch_vars, demo_vars>>

\* one pass of "for step_name, service_name in steps"
PathStep ==
    /\ pc = "cp_loop"
    /\ Len(path_samples) < Len(steps)
    /\ \E d \in StepDraws :
          LET health == test_service_health(
                            steps[Len(path_samples) + 1].service_name, d)
          IN  /\ path_draws' = Append(path_draws, d)
              /\ path_samples' = Append(path_samples, health)
              /\ path_locals' = PathAdvance(path_locals, health)
    /\ UNCHANGED <<config, changes, run_vars, path_result, score_vars,
                   driver_vars, call_vars,
                   batch_vars, demo_vars>>

\* mutant of PathReturn: the pass stops at the first unhealthy step
PathReturnOnFailure ==
    /\ pc = "cp_loop"
    /\ Len(path_samples) = Len(steps) \/ ~path_locals.path_successful
    /\ path_result' = <<PathResult(path_locals)>>
    /\ pc' = "cp_done"
    /\ UNCHANGED <<config, changes, sweep_draws, service_healths,
                   critical_path_available, concurrent_results, report,
                   path_draws, path_samples, path_locals, score_vars,
                   driver_vars, call_vars, batch_vars, demo_vars>>

\* the return statement, after the last step
PathReturn ==
    /\ pc = "cp_loop"
    /\ Len(path_samples) = Len(steps)
    /\ path_result' = <<PathResult(path_locals)>>
    /\ pc' = "cp_done"
    /\ UNCHANGED <<config, changes, sweep_draws, service_healths,
                   critical_path_available, concurrent_results, report,
                   path_draws, path_samples, path_locals, score_vars,
                   driver_vars, call_vars,
                   batch_vars, demo_vars>>

\* the caller has read the flag
PathFinish ==
    /\ pc = "cp_done"
    /\ pc' = "idle"
    /\ path_draws' = << >>
    /\ path_samples' = << >>
    /\ path_locals' = PathStart
    /\ path_result' = NoResult
    /\ UNCHANGED <<config, changes, sweep_draws, service_healths,
                   critical_path_available, concurrent_results, report,
                   score_vars, driver_vars, call_vars,
                   batch_vars, demo_vars>>

NextPath ==
    \/ \E n \in CallerNames : \E b \in BOOLEAN : simulate_service_failure(n, b)
    \/ \E n \in SlowedServices : \E t \in BaseTimes : SetBaseResponseTime(n, t)
    \/ \E r \in FailureRates : SetFailureRates(r)
    \/ PathCall
    \/ PathStep
    \/ PathReturn
    \/ PathFinish

SpecPath == Init /\ [][NextPath]_vars

RECURSIVE SumOfTimes(_)
SumOfTimes(samples) ==
    IF samples = << >> THEN 0
    ELSE samples[1].response_time + SumOfTimes(Tail(samples))

\* C9: test_critical_path_availability returns true iff all seven step
\* samples are healthy and the sum of their latencies is strictly below
\* max_response_time; the samples are those of the seven steps, none of
\* which is on a service outside the path such as cache, so the flag does
\* not depend on the sweep nor on the state of such a service.
C9_PathFlagFromSevenSamples ==
    pc = "cp_done" =>
        /\ Len(path_samples) = 7
        /\ \A i \in 1..7 : path_samples[i].name = steps[i].service_name
        /\ \A i \in 1..7 : path_samples[i].name # "cache"
        /\ service_healths = NoHealths
        /\ path_result[1] =
               ((\A i \in 1..7 : path_samples[i].is_healthy)
                    /\ SumOfTimes(path_samples) < max_response_time)

\* cache is forced down and the critical path is available all the same
C9_Witness ==
    /\ pc = "cp_done"
    /\ ~is_available["cache"]
    /\ path_result = <<TRUE>>

\* the services of the steps, in the order of the pass
StepOrder ==
    <<"group_buying_service", "group_buying_service", "database",
      "order_service", "payment_service", "logistics_service",
      "notification_service">>

\* C18: test_critical_path_availability invokes all seven steps in the
\* fixed order: the samples taken so far are those of the first steps in
\* that order, whatever their health; while steps remain the next one can
\* be taken, also after an unhealthy one; the pass ends only after the
\* seventh; and the total compared with the budget is the sum of the
\* latencies of all samples, healthy or not.
C18_AllStepsInOrder ==
    /\ [](pc \in {"cp_loop", "cp_done"} =>
              /\ Len(path_samples) <= 7
              /\ \A i \in 1..Len(path_samples) :
                     path_samples[i].name = StepOrder[i]
              /\ path_locals.total_response_time = SumOfTimes(path_samples)
              /\ (pc = "cp_loop" /\ Len(path_samples) < 7) => ENABLED PathStep
              /\ pc = "cp_done" =>
                     /\ Len(path_samples) = 7
                     /\ path_result[1] =
                            (path_locals.path_successful
                                 /\ SumOfTimes(path_samples) < max_response_time))
    /\ [][(pc = "cp_loop" /\ pc' # "cp_loop") =>
              (pc' = "cp_done" /\ Len(path_samples) = 7)]_vars
    /\ [][(pc = "cp_loop" /\ pc' = "cp_loop") =>
              (Len(path_samples') = Len(path_samples) + 1
                   /\ SubSeq(path_samples', 1, Len(path_samples))
                          = path_samples)]_vars

\* a pass whose first step was unhealthy and that went on to the seventh,
\* the time of the unhealthy step counted
C18_Witness ==
    /\ pc = "cp_done"
    /\ ~path_samples[1].is_healthy
    /\ path_samples[1].response_time > 0
    /\ Len(path_samples) = 7
    /\ path_locals.total_response_time = SumOfTimes(path_samples)

---------------------------------------------------------------------------
(* test_service_health called on its own, with a registered name or not    *)
(* (specification SpecHealth)                                              *)

\* health = fitness_functions.test_service_health(service_name)
ServiceHealthCall(service_name, d) ==
    /\ pc = "idle"
    /\ health_arg' = service_name
    /\ health_result' = <<test_service_health(service_name, d)>>
    /\ UNCHANGED <<config, changes, run_vars, score_vars, path_vars,
                   batch_vars, driver_vars, demo_vars>>

NextHealth ==
    \/ \E n \in CallerNames : \E b \in BOOLEAN : simulate_service_failure(n, b)
    \/ \E n \in SlowedServices : \E t \in BaseTimes : SetBaseResponseTime(n, t)
    \/ \E r \in FailureRates : SetFailureRates(r)
    \/ \E n \in CallerNames : \E d \in Draws : ServiceHealthCall(n, d)

SpecHealth == Init /\ [][NextHealth]_vars

\* C14: test_service_health with a name that is not registered returns (it
\* raises nothing) an unhealthy sample with that name, response_time 0 and
\* the message "Service <name> not found"; the call registers nothing and
\* leaves every service's configuration as it was.
C14_UnknownServiceIsReportedNotRaised ==
    /\ [](health_result # NoResult /\ health_arg \notin ServiceNames =>
              /\ health_result[1].name = health_arg
              /\ ~health_result[1].is_healthy
              /\ health_result[1].response_time = 0
              /\ health_result[1].error_message
                     = <<"Service", health_arg, "not found">>)
    /\ [](/\ DOMAIN is_available = ServiceNames
          /\ DOMAIN base_response_time = ServiceNames
          /\ DOMAIN failure_rate = ServiceNames)
    /\ [][<<health_arg, health_result>>' # <<health_arg, health_result>>
              => UNCHANGED config]_vars

\* the call of the test, made while a registered service is down
C14_Witness ==
    /\ health_arg = "nonexistent_service"
    /\ health_result # NoResult
    /\ \E n \in ServiceNames : ~is_available[n]

---------------------------------------------------------------------------
(* test_concurrent_availability called on its own, task by task            *)
(* (specifications SpecBatch and SpecBatchFair)                            *)

\* largest num_requests passed
MaxRequests == 3

\* the services random.choice picks from in the batches explored: one of
\* the critical path and one outside it
BatchChoices == {"payment_service", "cache"}

\* the draws of the tasks explored: the roll decides whether the sample is
\* healthy; the latency of a sample has no part in the returned counts
BatchDraws == { d \in Draws : d.jitter = 0 }

\* a task made by asyncio.create_task: scheduled ("created"), suspended in
\* asyncio.sleep ("sleeping") or returned ("done") with its sample
Task(service_name) ==
    [service_name |-> service_name, state |-> "created", health |-> << >>]

\* what gather hands back: the tasks' return values in the order of
\* creation, each << >> or <<sample>>
GatherResults(tasks) == [i \in 1..Len(tasks) |-> tasks[i].health]

\* mutant of GatherReady: gather returns as soon as one task is done
GatherReadyOnFirst(tasks) ==
    \E i \in 1..Len(tasks) : tasks[i].state = "done"

\* asyncio.gather(*tasks) resumes its awaiter when every task is done
GatherReady(tasks) ==
    \A i \in 1..Len(tasks) : tasks[i].state = "done"

\* mutant of SuccessfulRequests: every result counts
SuccessfulRequestsCountingAll(results) == Len(results)

\* sum(1 for r in results if isinstance(r, ServiceHealth) and r.is_healthy)
SuccessfulRequests(results) ==
    Cardinality({ i \in 1..Len(results) :
                      results[i] # << >> /\ results[i][1].is_healthy })

\* fitness_functions.test_concurrent_availability(num_requests)
BatchCall(num_requests) ==
    /\ pc = "idle"
    /\ batch_num_requests' = num_requests
    /\ batch_tasks' = << >>
    /\ batch_order' = << >>
    /\ batch_results' = NoResult
    /\ pc' = "cb_create"
    /\ UNCHANGED <<config, changes, sweep_draws, service_healths,
                   critical_path_available, concurrent_results, report,
                   score_vars, path_vars, call_vars, driver_vars, demo_vars>>

\* one iteration of "for i in range(num_requests)": a service is chosen and
\* a task created for it; the task does not run before the creator awaits
CreateTask(service_name) ==
    /\ pc = "cb_create"
    /\ Len(batch_tasks) < batch_num_requests
    /\ batch_tasks' = Append(batch_tasks, Task(service_name))
    /\ UNCHANGED <<config, changes, pc, sweep_draws, service_healths,
                   critical_path_available, concurrent_results, report,
                   batch_num_requests, batch_order, batch_results,
                   score_vars, path_vars, call_vars, driver_vars, demo_vars>>

\* await asyncio.gather(*tasks, return_exceptions=True): the creator is
\* suspended and the event loop runs the tasks
Gather ==
    /\ pc = "cb_create"
    /\ Len(batch_tasks) = batch_num_requests
    /\ pc' = "cb_gather"
    /\ UNCHANGED <<config, changes, sweep_draws, service_healths,
                   critical_path_available, concurrent_results, report,
                   batch_vars, score_vars, path_vars, call_vars, driver_vars,
                   demo_vars>>

\* _async_service_request up to "await asyncio.sleep(0.01)"; the event loop
\* starts the tasks in the order of their creation
TaskStart(i) ==
    /\ pc = "cb_gather"
    /\ i \in 1..Len(batch_tasks)
    /\ batch_tasks[i].state = "created"
    /\ \A j \in 1..(i - 1) : batch_tasks[j].state # "created"
    /\ batch_tasks' = [batch_tasks EXCEPT ![i].state = "sleeping"]
    /\ UNCHANGED <<config, changes, pc, sweep_draws, service_healths,
                   critical_path_available, concurrent_results, report,
                   batch_num_requests, batch_order, batch_results,
                   score_vars, path_vars, call_vars, driver_vars, demo_vars>>

\* mutant of TaskWake: a task whose sample is unhealthy marks the service
\* unavailable
TaskWakeMarkingDown(i, d) ==
    /\ pc = "cb_gather"
    /\ i \in 1..Len(batch_tasks)
    /\ \A j \in 1..Len(batch_tasks) : batch_tasks[j].state # "created"
    /\ batch_tasks[i].state = "sleeping"
    /\ batch_tasks' =
           [batch_tasks EXCEPT
               ![i].state = "done",
               ![i].health =
                   <<test_service_health(batch_tasks[i].service_name, d)>>]
    /\ batch_order' = Append(batch_order, i)
    /\ is_available' =
           IF test_service_health(batch_tasks[i].service_name, d).is_healthy
           THEN is_available
           ELSE [is_available EXCEPT ![batch_tasks[i].service_name] = FALSE]
    /\ UNCHANGED <<base_response_time, failure_rate, changes, pc,
                   sweep_draws, service_healths,
                   critical_path_available, concurrent_results, report,
                   batch_num_requests, batch_results,
                   score_vars, path_vars, call_vars, driver_vars, demo_vars>>

\* _async_service_request after the sleep: every task has been started by
\* then; the timers fire in an order the code does not fix, and the woken
\* task runs "return self.test_service_health(service_name)" to its end
TaskWake(i, d) ==
    /\ pc = "cb_gather"
    /\ i \in 1..Len(batch_tasks)
    /\ \A j \in 1..Len(batch_tasks) : batch_tasks[j].state # "created"
    /\ batch_tasks[i].state = "sleeping"
    /\ batch_tasks' =
           [batch_tasks EXCEPT
               ![i].state = "done",
               ![i].health =
                   <<test_service_health(batch_tasks[i].service_name, d)>>]
    /\ batch_order' = Append(batch_order, i)
    /\ UNCHANGED <<config, changes, pc, sweep_draws, service_healths,
                   critical_path_available, concurrent_results, report,
                   batch_num_requests, batch_results,
                   score_vars, path_vars, call_vars, driver_vars, demo_vars>>

\* mutant of GatherReturn: the division is guarded, an empty batch returns
\* a dict with no success
GatherReturnGuarded ==
    /\ pc = "cb_gather"
    /\ GatherReady(batch_tasks)
    /\ pc' = "cb_done"
    /\ batch_results' =
           <<ConcurrentResults(
                 SuccessfulRequests(GatherResults(batch_tasks)),
                 batch_num_requests)>>
    /\ UNCHANGED <<config, changes, sweep_draws, service_healths,
                   critical_path_available, concurrent_results, report,
                   batch_num_requests, batch_tasks, batch_order,
                   score_vars, path_vars, call_vars, driver_vars, demo_vars>>

\* gather resumes the creator, asyncio.run returns the results, and the
\* returned dict is built; with num_requests = 0 the division
\* successful_requests / num_requests raises ZeroDivisionError
GatherReturn ==
    /\ pc = "cb_gather"
    /\ GatherReady(batch_tasks)
    /\ IF batch_num_requests = 0
       THEN /\ pc' = "cb_fault"
            /\ UNCHANGED batch_results
       ELSE /\ pc' = "cb_done"
            /\ batch_results' =
                   <<ConcurrentResults(
                         SuccessfulRequests(GatherResults(batch_tasks)),
                         batch_num_requests)>>
    /\ UNCHANGED <<config, changes, sweep_draws, service_healths,
                   critical_path_available, concurrent_results, report,
                   batch_num_requests, batch_tasks, batch_order,
                   score_vars, path_vars, call_vars, driver_vars, demo_vars>>

\* the caller has the dict (or the exception); the locals are gone
BatchFinish ==
    /\ pc \in {"cb_done", "cb_fault"}
    /\ pc' = "idle"
    /\ batch_num_requests' = 0
    /\ batch_tasks' = << >>
    /\ batch_order' = << >>
    /\ batch_results' = NoResult
    /\ UNCHANGED <<config, changes, sweep_draws, service_healths,
                   critical_path_available, concurrent_results, report,
                   score_vars, path_vars, call_vars, driver_vars, demo_vars>>

\* the steps of the tasks of a batch
TaskStep ==
    \/ \E i \in 1..MaxRequests : TaskStart(i)
    \/ \E i \in 1..MaxRequests : \E d \in BatchDraws : TaskWake(i, d)

NextBatch ==
    \/ \E n \in BatchChoices : \E b \in BOOLEAN :
           simulate_service_failure(n, b)
    \/ \E r \in FailureRates : SetFailureRates(r)
    \/ \E k \in 0..MaxRequests : BatchCall(k)
    \/ \E n \in BatchChoices : CreateTask(n)
    \/ Gather
    \/ TaskStep
    \/ GatherReturn
    \/ BatchFinish

SpecBatch == Init /\ [][NextBatch]_vars

\* the event loop runs every task that is ready and resumes the awaiter of
\* gather; time.sleep and asyncio.sleep end
SpecBatchFair ==
    /\ SpecBatch
    /\ WF_vars(TaskStep)
    /\ WF_vars(GatherReturn)

\* the samples the tasks of the batch have returned so far
BatchSamples ==
    { i \in 1..Len(batch_tasks) : batch_tasks[i].health # << >> }

\* C12: for N >= 1, test_concurrent_availability(N) launches exactly N
\* calls and obtains exactly N samples; it returns (no fault), and its
\* success_rate is (number of healthy samples) / N, between 0 and 1.
C12_BatchOfNGivesNSamples ==
    /\ Len(batch_tasks) <= batch_num_requests
    /\ pc \in {"cb_gather", "cb_done"} =>
           Len(batch_tasks) = batch_num_requests
    /\ pc = "cb_fault" => batch_num_requests = 0
    /\ pc = "cb_done" =>
           /\ batch_num_requests >= 1
           /\ Cardinality(BatchSamples) = batch_num_requests
           /\ batch_results[1].num_requests = batch_num_requests
           /\ batch_results[1].successful_requests =
                  Cardinality({ i \in BatchSamples :
                                    batch_tasks[i].health[1].is_healthy })
           /\ batch_results[1].successful_requests \in 0..batch_num_requests
           /\ LET success_rate == FDiv(batch_results[1].successful_requests,
                                       batch_results[1].num_requests)
              IN  /\ ~FLess(success_rate, FZero)
                  /\ ~FLess(FDiv(1, 1), success_rate)

\* a batch of three that returned with two healthy samples and one not
C12_Witness ==
    /\ pc = "cb_done"
    /\ batch_num_requests = 3
    /\ batch_results[1].successful_requests = 2
    /\ \E i \in 1..3 : ~batch_tasks[i].health[1].is_healthy

\* the tasks completed in the order of their creation
InCreationOrder(order) == \A i \in 1..Len(order) : order[i] = i

\* C19: the batch is fire-and-gather: once the creator awaits gather every
\* one of the N tasks completes and the call returns; the success count is
\* computed in a step taken when all N tasks are done, from all N samples,
\* whatever the order of completion.
C19_GatherAfterAllTasks ==
    /\ [](batch_results # NoResult =>
              /\ \A i \in 1..Len(batch_tasks) : batch_tasks[i].state = "done"
              /\ Len(batch_order) = batch_num_requests
              /\ \A i \in 1..batch_num_requests :
                     \E k \in 1..Len(batch_order) : batch_order[k] = i
              /\ batch_results[1].successful_requests =
                     Cardinality({ i \in 1..batch_num_requests :
                                       batch_tasks[i].health[1].is_healthy }))
    /\ [][batch_results' # batch_results /\ batch_results' # NoResult =>
              /\ \A i \in 1..batch_num_requests : batch_tasks[i].state = "done"
              /\ Len(batch_tasks) = batch_num_requests
              /\ UNCHANGED batch_tasks]_vars
    /\ (pc = "cb_gather") ~>
           (pc = "cb_fault"
                \/ (pc = "cb_done"
                      /\ \A i \in 1..batch_num_requests :
                             batch_tasks[i].state = "done"))

\* a batch that returned after its tasks finished out of creation order
C19_Witness ==
    /\ pc = "cb_done"
    /\ batch_num_requests >= 2
    /\ ~InCreationOrder(batch_order)
    /\ batch_results # NoResult

---------------------------------------------------------------------------
(* calculate_availability_score called on its own, as                      *)
(* test_availability_score_calculation does (specification SpecScore)      *)

\* keys of the dicts passed
SampleKeys == <<"service1", "service2", "service3", "service4", "service5">>

\* response times of the samples passed: fast, max_response_time exactly,
\* and beyond it
SampleTimes == {10, max_response_time, max_response_time + 100}

SampleHealths(name) ==
    { ServiceHealth(name, TRUE, t, NoError) : t \in SampleTimes }
        \cup { ServiceHealth(name, FALSE, t, <<"Error">>) : t \in SampleTimes }

\* every dict of at most MaxSamples samples
ScoreInputs ==
    UNION { { f \in [{SampleKeys[i] : i \in 1..k}
                        -> UNION {SampleHealths(SampleKeys[i]) : i \in 1..k}] :
                  \A key \in DOMAIN f : f[key].name = key } :
            k \in 0..MaxSamples }

InitScore ==
    /\ is_available = [n \in ServiceNames |-> TRUE]
    /\ base_response_time = DefaultBaseResponseTime
    /\ failure_rate = DefaultFailureRate
    /\ changes = 0
    /\ NoRun
    /\ score_input \in ScoreInputs
    /\ score_output = NoScore
    /\ NoPathCall
    /\ NoCall
    /\ NoBatch
    /\ NoDemo
    /\ NoDriver

\* score = fitness_functions.calculate_availability_score(service_healths)
CalculateScore ==
    /\ score_output = NoScore
    /\ score_output' = <<calculate_availability_score(score_input)>>
    /\ UNCHANGED <<config, changes, run_vars, score_input,
                   path_vars, call_vars, batch_vars, driver_vars, demo_vars>>

NextScore == CalculateScore

SpecScore == InitScore /\ [][NextScore]_vars

\* C2: for any dict of health samples (any number, any mix of healthy and
\* unhealthy, any latencies) calculate_availability_score returns an
\* integer in [0,100].
C2_ScoreInRange ==
    score_output # NoScore => score_output[1] \in 0..100

\* the dict of the test: three samples, two healthy, none slow, scored 66
C2_Witness ==
    /\ score_output = <<66>>
    /\ Cardinality(DOMAIN score_input) = 3
    /\ Cardinality({k \in DOMAIN score_input : score_input[k].is_healthy}) = 2

\* the counts of a dict of samples
HealthyIn(healths) ==
    Cardinality({k \in DOMAIN healths : healths[k].is_healthy})
SlowIn(healths) ==
    Cardinality({k \in DOMAIN healths : TooSlow(healths[k])})

\* C11: for a non-empty dict with h healthy samples, s slow samples and n
\* samples in all, calculate_availability_score returns
\* max(0, floor(100*h/n - 20*s/n)): one round-down after the subtraction,
\* then the floor at 0.  The code rounds each quotient and each product to
\* a double before it subtracts, so the property does not hold.
C11_ScoreIsFloorOfExactDifference ==
    (score_output # NoScore /\ DOMAIN score_input # {}) =>
        LET n == Cardinality(DOMAIN score_input)
            exact == (100 * HealthyIn(score_input)
                          - 20 * SlowIn(score_input)) \div n
        IN  score_output[1] = IF exact < 0 THEN 0 ELSE exact

---------------------------------------------------------------------------
(* test_github_actions.py: main and the four workflows it runs in          *)
(* sequence on the shared fitness_functions instance (specification        *)
(* SpecDriver).  A call of run_availability_tests is one step here; its    *)
(* outcome ranges over every outcome the three tests can have under the    *)
(* configuration in force.  Of a report the driver's verdicts read the     *)
(* score and the two flags only; what is merely written to the JSON files  *)
(* (issues, timestamps, the batch of the high_load scenario) is left out.  *)

MaxIterations == 2

Workflows == <<"fitness-functions", "scenario", "monitoring", "deployment">>

Scenarios == {"healthy_system", "degraded_system", "critical_failure",
              "partial_failure", "high_load", "stress_test"}

DefaultIterations == 3
DefaultAlertThreshold == 70
AlertThresholds == {50, DefaultAlertThreshold}

\* args = parser.parse_args(): the scenario is varied where a selected
\* workflow reads it, the number of iterations where the scenario workflow
\* runs alone and the alert threshold where the monitoring workflow runs
\* alone; elsewhere an option has its default
Arguments ==
    { a \in [workflow : {Workflows[i] : i \in DOMAIN Workflows} \cup {"all"},
             scenario : Scenarios,
             iterations : (0..MaxIterations) \cup {DefaultIterations},
             alert_threshold : AlertThresholds] :
        /\ a.workflow \notin {"scenario", "all"} =>
               a.scenario = "healthy_system"
        /\ a.workflow = "scenario" => a.iterations <= MaxIterations
        /\ a.workflow # "scenario" => a.iterations = DefaultIterations
        /\ a.workflow # "monitoring" =>
               a.alert_threshold = DefaultAlertThreshold }

InitDriver ==
    /\ is_available = [n \in ServiceNames |-> TRUE]
    /\ base_response_time = DefaultBaseResponseTime
    /\ failure_rate = DefaultFailureRate
    /\ changes = 0
    /\ NoRun
    /\ score_input = NoHealths
    /\ score_output = NoScore
    /\ NoPathCall
    /\ NoCall
    /\ NoBatch
    /\ NoDemo
    /\ args \in Arguments
    /\ dpc = "fitness-functions"
    /\ iteration = 0
    /\ workflow_results = << >>
    /\ conditions = NoConditions
    /\ latest_report = NoSummary
    /\ main_results = << >>
    /\ exit_code = NoExit

\* if args.workflow in [w, 'all']
Selected(w) == args.workflow \in {w, "all"}

\* the statement of main that follows workflow w
AfterWorkflow(w) ==
    CASE w = "fitness-functions" -> "scenario"
      [] w = "scenario" -> "monitoring"
      [] w = "monitoring" -> "deployment"
      [] w = "deployment" -> "summary"

\* what the verdicts read of an AvailabilityResult
RunSummary(availability_score, path_available) ==
    [overall_score |-> availability_score,
     is_healthy |-> IsHealthy(availability_score),
     critical_path_available |-> path_available]

\* the counts calculate_availability_score takes of a sweep, after the
\* first k services: healthy samples, slow samples, and the calls that drew
\* off the nominal draw (at most MaxOffNominal in a sweep)
RECURSIVE SweepTallies(_)
SweepTallies(k) ==
    IF k = 0
    THEN {[healthy_services |-> 0, slow_services |-> 0, off_nominal |-> 0]}
    ELSE UNION {
           { LET health == test_service_health(ServiceOrder[k], d)
             IN  [healthy_services |->
                      t.healthy_services + (IF health.is_healthy THEN 1 ELSE 0),
                  slow_services |->
                      t.slow_services + (IF TooSlow(health) THEN 1 ELSE 0),
                  off_nominal |->
                      t.off_nominal + (IF d = NominalDraw THEN 0 ELSE 1)] :
               d \in IF t.off_nominal < MaxOffNominal
                     THEN Draws ELSE {NominalDraw} } :
           t \in SweepTallies(k - 1) }

\* calculate_availability_score(self.test_all_services_health()): every
\* score the sweep can have under the configuration in force
SweepScores ==
    { ScoreTable[<<Len(ServiceOrder), t.healthy_services, t.slow_services>>] :
          t \in SweepTallies(Len(ServiceOrder)) }

\* fitness_functions.run_availability_tests(): every report it can return
\* under the configuration in force
RunOutcomes ==
    LET path_flags == { PathResult(acc) : acc \in PathAccs(Len(steps)) }
        batches ==
            { ConcurrentResults(c, DefaultNumRequests) :
                  c \in SuccessCounts(DefaultNumRequests,
                                      {h.is_healthy : h \in TaskHealths}) }
    IN  { RunSummary(PenalisedScore(sc, pa, b), pa) :
              sc \in SweepScores, pa \in path_flags, b \in batches }

\* services[service_name].failure_rate = 0.001
DeterministicFailureRate == 1

RECURSIVE SumOfScores(_)
SumOfScores(rs) ==
    IF rs = << >> THEN 0 ELSE rs[1].overall_score + SumOfScores(Tail(rs))

Verdict(w, passed) == [workflow |-> w, passed |-> passed]

\* for service_name in fitness_functions.services:
\*     fitness_functions.simulate_service_failure(service_name, True)
\* followed by the simulate_service_failure calls of the scenario
ScenarioAvailability(scenario) ==
    LET reset == [n \in ServiceNames |-> TRUE]
    IN  CASE scenario = "critical_failure" ->
                 [reset EXCEPT !["group_buying_service"] = FALSE]
          [] scenario = "partial_failure" ->
                 [reset EXCEPT !["notification_service"] = FALSE]
          [] scenario = "stress_test" -> [reset EXCEPT !["cache"] = FALSE]
          [] OTHER -> reset

\* the base_response_time assignments of the scenario in
\* run_scenario_testing, made on the base response times base
ScenarioBaseTimes(scenario, base) ==
    CASE scenario = "degraded_system" ->
             [base EXCEPT !["payment_service"] = 250,
                          !["logistics_service"] = 200]
      [] scenario = "stress_test" ->
             [base EXCEPT !["payment_service"] = 300,
                          !["logistics_service"] = 250,
                          !["order_service"] = 200]
      [] OTHER -> base

\* scenarios = ['healthy_system', 'degraded_system', 'high_load']
DeploymentScenarios == <<"healthy_system", "degraded_system", "high_load">>

\* the base_response_time assignments of the scenario in
\* run_deployment_validation, made on the base response times base
DeploymentBaseTimes(scenario, base) ==
    IF scenario = "degraded_system"
    THEN [base EXCEPT !["payment_service"] = 200,
                      !["logistics_service"] = 150]
    ELSE base

\* for i in range(3)
PostDeploymentTests == 3

\* results['fitness-functions'] = run_availability_testing()
run_availability_testing ==
    /\ dpc = "fitness-functions"
    /\ Selected("fitness-functions")
    /\ failure_rate' = [n \in ServiceNames |-> DeterministicFailureRate]
    /\ UNCHANGED <<is_available, base_response_time>>
    /\ conditions' = [workflow |-> "fitness-functions", scenario |-> ""]
    /\ \E r \in RunOutcomes' :
          /\ latest_report' = r
          /\ main_results' =
                 Append(main_results,
                        Verdict("fitness-functions", r.is_healthy))
    /\ dpc' = AfterWorkflow("fitness-functions")
    /\ UNCHANGED <<changes, run_vars, score_vars, path_vars, call_vars, batch_vars, args, iteration,
                   workflow_results, exit_code, demo_vars>>

\* the "if args.workflow in [...]" of a workflow that was not selected
SkipWorkflow(w) ==
    /\ dpc = w
    /\ ~Selected(w)
    /\ dpc' = AfterWorkflow(w)
    /\ UNCHANGED <<config, changes, run_vars, score_vars, path_vars, call_vars, batch_vars, args,
                   iteration, workflow_results, conditions, latest_report,
                   main_results,
                   exit_code, demo_vars>>

\* run_scenario_testing: one pass of "for i in range(iterations)"
ScenarioIteration ==
    /\ dpc = "scenario"
    /\ Selected("scenario")
    /\ iteration < args.iterations
    /\ is_available' = ScenarioAvailability(args.scenario)
    /\ failure_rate' = [n \in ServiceNames |-> DeterministicFailureRate]
    /\ base_response_time' =
           ScenarioBaseTimes(args.scenario, base_response_time)
    /\ conditions' = [workflow |-> "scenario", scenario |-> args.scenario]
    /\ \E r \in RunOutcomes' :
          /\ latest_report' = r
          /\ workflow_results' = Append(workflow_results, r)
    /\ iteration' = iteration + 1
    /\ UNCHANGED <<changes, run_vars, score_vars, path_vars, call_vars, batch_vars, args, dpc,
                   main_results, exit_code, demo_vars>>

\* healthy_count / len(results)
HealthyCount(rs) == Cardinality({i \in DOMAIN rs : rs[i].is_healthy})

\* run_scenario_testing after its loop: the summary statistics and
\* "return healthy_rate >= 0.6"; with no result the division faults and the
\* process ends with the traceback
ScenarioSummary ==
    /\ dpc = "scenario"
    /\ Selected("scenario")
    /\ iteration = args.iterations
    /\ IF Len(workflow_results) = 0
       THEN /\ dpc' = "fault"
            /\ exit_code' = <<1>>
            /\ UNCHANGED main_results
       ELSE /\ dpc' = AfterWorkflow("scenario")
            /\ main_results' =
                   Append(main_results,
                          Verdict("scenario",
                                  HealthyCount(workflow_results) * 10
                                      >= 6 * Len(workflow_results)))
            /\ UNCHANGED exit_code
    /\ workflow_results' = << >>
    /\ iteration' = 0
    /\ UNCHANGED <<config, changes, run_vars, score_vars, path_vars, call_vars, batch_vars, args,
                   conditions, latest_report, demo_vars>>

\* results['monitoring'] = run_monitoring(args.alert_threshold)
run_monitoring ==
    /\ dpc = "monitoring"
    /\ Selected("monitoring")
    /\ conditions' = [workflow |-> "monitoring", scenario |-> ""]
    /\ \E r \in RunOutcomes :
          /\ latest_report' = r
          /\ main_results' =
                 Append(main_results,
                        Verdict("monitoring",
                                ~(r.overall_score < args.alert_threshold)))
    /\ dpc' = AfterWorkflow("monitoring")
    /\ UNCHANGED <<config, changes, run_vars, score_vars, path_vars, call_vars, batch_vars, args,
                   iteration, workflow_results, exit_code, demo_vars>>

\* run_deployment_validation: one pass of "for scenario in scenarios"
DeploymentScenario ==
    /\ dpc = "deployment"
    /\ Selected("deployment")
    /\ iteration < Len(DeploymentScenarios)
    /\ LET scenario == DeploymentScenarios[iteration + 1]
       IN  /\ base_response_time' =
                  DeploymentBaseTimes(scenario, base_response_time)
           /\ conditions' = [workflow |-> "deployment", scenario |-> scenario]
    /\ is_available' = [n \in ServiceNames |-> TRUE]
    /\ failure_rate' = [n \in ServiceNames |-> DeterministicFailureRate]
    /\ \E r \in RunOutcomes' :
          /\ latest_report' = r
          /\ workflow_results' = Append(workflow_results, r)
    /\ iteration' = iteration + 1
    /\ UNCHANGED <<changes, run_vars, score_vars, path_vars, call_vars, batch_vars, args, dpc,
                   main_results, exit_code, demo_vars>>

\* avg_score >= threshold and all_healthy and critical_path_ok, the average
\* taken over the results rs
ValidationPassed(rs, threshold) ==
    /\ SumOfScores(rs) >= threshold * Len(rs)
    /\ \A i \in DOMAIN rs : rs[i].is_healthy
    /\ \A i \in DOMAIN rs : rs[i].critical_path_available

\* run_deployment_validation after the scenarios: the pre-deployment
\* verdict, which lets the deployment and the post-deployment tests follow
\* or returns False
PreDeploymentValidation ==
    /\ dpc = "deployment"
    /\ Selected("deployment")
    /\ iteration = Len(DeploymentScenarios)
    /\ IF ValidationPassed(workflow_results, 80)
       THEN /\ dpc' = "post-deployment"
            /\ UNCHANGED main_results
       ELSE /\ dpc' = AfterWorkflow("deployment")
            /\ main_results' =
                   Append(main_results, Verdict("deployment", FALSE))
    /\ workflow_results' = << >>
    /\ iteration' = 0
    /\ UNCHANGED <<config, changes, run_vars, score_vars, path_vars, call_vars, batch_vars, args,
                   conditions, latest_report, exit_code, demo_vars>>

\* run_deployment_validation: one pass of the post-deployment loop
PostDeploymentTest ==
    /\ dpc = "post-deployment"
    /\ iteration < PostDeploymentTests
    /\ conditions' = [workflow |-> "post-deployment", scenario |-> ""]
    /\ \E r \in RunOutcomes :
          /\ latest_report' = r
          /\ workflow_results' = Append(workflow_results, r)
    /\ iteration' = iteration + 1
    /\ UNCHANGED <<config, changes, run_vars, score_vars, path_vars, call_vars, batch_vars, args,
                   dpc, main_results, exit_code, demo_vars>>

\* run_deployment_validation: the post-deployment verdict and the return
PostDeploymentValidation ==
    /\ dpc = "post-deployment"
    /\ iteration = PostDeploymentTests
    /\ main_results' =
           Append(main_results,
                  Verdict("deployment", ValidationPassed(workflow_results, 85)))
    /\ dpc' = AfterWorkflow("deployment")
    /\ workflow_results' = << >>
    /\ iteration' = 0
    /\ UNCHANGED <<config, changes, run_vars, score_vars, path_vars, call_vars, batch_vars, args,
                   conditions, latest_report, exit_code, demo_vars>>

\* main: all_passed = all(results.values()); return 0 or 1, which
\* sys.exit makes the exit code
Summary ==
    /\ dpc = "summary"
    /\ exit_code' =
           <<IF \A i \in DOMAIN main_results : main_results[i].passed
             THEN 0 ELSE 1>>
    /\ dpc' = "exit"
    /\ UNCHANGED <<config, changes, run_vars, score_vars, path_vars, call_vars, batch_vars, args,
                   iteration, workflow_results, conditions, latest_report,
                   main_results, demo_vars>>

NextDriver ==
    \/ run_availability_testing
    \/ \E i \in DOMAIN Workflows : SkipWorkflow(Workflows[i])
    \/ ScenarioIteration
    \/ ScenarioSummary
    \/ run_monitoring
    \/ DeploymentScenario
    \/ PreDeploymentValidation
    \/ PostDeploymentTest
    \/ PostDeploymentValidation
    \/ Summary

SpecDriver == InitDriver /\ [][NextDriver]_vars

\* the configuration of a run that is independent of what ran before it:
\* the defaults, with what the workflow or scenario of the run sets itself
IndependentConfiguration(c) ==
    CASE c.workflow = "fitness-functions" ->
             <<[n \in ServiceNames |-> TRUE], DefaultBaseResponseTime,
               [n \in ServiceNames |-> DeterministicFailureRate]>>
      [] c.workflow = "scenario" ->
             <<ScenarioAvailability(c.scenario),
               ScenarioBaseTimes(c.scenario, DefaultBaseResponseTime),
               [n \in ServiceNames |-> DeterministicFailureRate]>>
      [] c.workflow = "deployment" ->
             <<[n \in ServiceNames |-> TRUE],
               DeploymentBaseTimes(c.scenario, DefaultBaseResponseTime),
               [n \in ServiceNames |-> DeterministicFailureRate]>>
      [] OTHER ->
             <<[n \in ServiceNames |-> TRUE], DefaultBaseResponseTime,
               DefaultFailureRate>>

\* C7: in the driver every run is independent: the configuration a
\* scenario, iteration or workflow runs under is the default configuration
\* with what that scenario sets itself; nothing an earlier scenario,
\* iteration or workflow changed carries over.
C7_RunsIndependent ==
    conditions # NoConditions =>
        <<is_available, base_response_time, failure_rate>>
            = IndependentConfiguration(conditions)

\* the verdict main stored last, and the workflow a run belongs to
LastVerdict == main_results[Len(main_results)]
WorkflowOfRun(c) ==
    IF c.workflow = "post-deployment" THEN "deployment" ELSE c.workflow

\* C13: when the final report of a workflow is unhealthy the workflow does
\* not pass and the exit code is not 0; the exit code is 0 only when every
\* selected workflow passed.  The scenario workflow passes on a healthy
\* rate of 0.6 and the monitoring workflow on the alert threshold, whatever
\* is_healthy says of the last report, so the property does not hold.
C13_UnhealthyFinalReportFails ==
    /\ ( /\ main_results # << >>
         /\ WorkflowOfRun(conditions) = LastVerdict.workflow
         /\ ~latest_report.is_healthy ) => ~LastVerdict.passed
    /\ dpc = "exit" =>
           /\ ~latest_report.is_healthy => exit_code # <<0>>
           /\ exit_code = <<0>> =>
                  \A i \in DOMAIN main_results : main_results[i].passed

\* the second half of C13 alone: exit code 0 only when every selected
\* workflow passed
ExitZeroOnlyIfAllPassed ==
    dpc = "exit" =>
        (exit_code = <<0>>
             <=> \A i \in DOMAIN main_results : main_results[i].passed)

\* SweepScores is the set of scores of the sweeps RunSweep can make
SweepScoresAgree ==
    SweepScores =
        { calculate_availability_score(test_all_services_health(d)) :
              d \in UNION {SweepDraws(P) : P \in OffNominalSets} }

\* the same for the base response times alone
BaseTimesIndependent ==
    conditions # NoConditions =>
        base_response_time = IndependentConfiguration(conditions)[2]

---------------------------------------------------------------------------
(* Every sampling and aggregation operation of the instance, called in any *)
(* order between the writes of the scenario code (specification SpecCalls) *)

NextCalls ==
    \/ \E b \in BOOLEAN : simulate_service_failure("payment_service", b)
    \/ SetFailureRates(0)
    \/ SetDegradedBaseTimes
    \/ \E n \in {"payment_service", "nonexistent_service"} :
           \E d \in BatchDraws : ServiceHealthCall(n, d)
    \/ RunSweep
    \/ RunCriticalPath
    \/ RunConcurrent
    \/ RunScore
    \/ Finish
    \/ PathCall
    \/ PathStep
    \/ PathReturn
    \/ PathFinish
    \/ BatchCall(2)
    \/ \E n \in BatchChoices : CreateTask(n)
    \/ Gather
    \/ TaskStep
    \/ GatherReturn
    \/ BatchFinish
    \/ CalculateScore

SpecCalls == Init /\ [][NextCalls]_vars

\* C20: no sampling or aggregation operation writes the configuration: a
\* step that changes a service's available flag, base latency or failure
\* probability is a write of the scenario code, made while no operation is
\* under way, and it changes nothing else; every step of
\* test_service_health, of the sweep, the critical path, the batch and its
\* tasks, of calculate_availability_score and of run_availability_tests
\* leaves the three maps as they were.
C20_SamplingLeavesConfiguration ==
    /\ [][config' # config =>
              /\ pc = "idle" /\ pc' = "idle"
              /\ changes' = changes + 1
              /\ UNCHANGED <<run_vars, score_vars, path_vars, call_vars,
                             batch_vars>>]_vars
    /\ [][(pc # "idle" \/ pc' # "idle" \/ call_vars' # call_vars
               \/ score_vars' # score_vars) =>
              UNCHANGED <<is_available, base_response_time, failure_rate>>]_vars
    /\ [](/\ DOMAIN is_available = ServiceNames
          /\ DOMAIN base_response_time = ServiceNames
          /\ DOMAIN failure_rate = ServiceNames)

\* a batch on a written configuration with a task returned and another
\* still asleep, after test_service_health and calculate_availability_score
\* were called
C20_Witness ==
    /\ pc = "cb_gather"
    /\ changes > 0
    /\ ~is_available["payment_service"]
    /\ \E i \in 1..Len(batch_tasks) : batch_tasks[i].state = "done"
    /\ \E i \in 1..Len(batch_tasks) : batch_tasks[i].state = "sleeping"
    /\ health_result # NoResult
    /\ score_output # NoScore

---------------------------------------------------------------------------
(* The calls with a count: test_concurrent_availability(num_requests) and  *)
(* main with --workflow scenario --iterations n (specification SpecCounts) *)

InitCounts ==
    /\ InitDriver
    /\ args.workflow = "scenario"

NextCounts ==
    \/ \E i \in DOMAIN Workflows : SkipWorkflow(Workflows[i])
    \/ ScenarioIteration
    \/ ScenarioSummary
    \/ Summary
    \/ \E k \in {0, 1} : BatchCall(k)
    \/ \E n \in BatchChoices : CreateTask(n)
    \/ Gather
    \/ TaskStep
    \/ GatherReturn
    \/ BatchFinish

SpecCounts == InitCounts /\ [][NextCounts]_vars

\* main has a verdict of the scenario workflow
HasScenarioVerdict ==
    \E i \in DOMAIN main_results : main_results[i].workflow = "scenario"

\* C23: with a zero count no verdict is produced.
\* test_concurrent_availability(0) launches no task, never returns a dict
\* and leaves gather only into the division fault; run_scenario_testing with
\* iterations = 0 runs no iteration, gives main no verdict and leaves its
\* loop only into the fault of the average over the empty list, the process
\* ending without main's summary.
C23_ZeroCountFaults ==
    /\ [](batch_num_requests = 0 /\ pc \in {"cb_create", "cb_gather", "cb_fault"} =>
              /\ batch_tasks = << >>
              /\ batch_order = << >>
              /\ batch_results = NoResult)
    /\ [](pc = "cb_done" => batch_num_requests >= 1)
    /\ [][(pc = "cb_gather" /\ batch_num_requests = 0 /\ pc' # pc) =>
              (pc' = "cb_fault" /\ batch_results' = NoResult)]_vars
    /\ [][(pc = "cb_fault" /\ pc' # pc) =>
              (pc' = "idle" /\ batch_results' = NoResult)]_vars
    /\ [](args.iterations = 0 =>
              /\ ~HasScenarioVerdict
              /\ workflow_results = << >>
              /\ dpc \notin {"monitoring", "deployment", "summary", "exit"}
              /\ exit_code # <<0>>)
    /\ [][(dpc = "scenario" /\ args.iterations = 0 /\ dpc' # dpc) =>
              (dpc' = "fault" /\ main_results' = main_results)]_vars
    /\ [](dpc = "fault" => (args.iterations = 0 /\ exit_code = <<1>>))

\* both calls were made with a zero count and both have faulted
C23_Witness ==
    /\ pc = "cb_fault"
    /\ batch_num_requests = 0
    /\ dpc = "fault"
    /\ args.iterations = 0
    /\ ~HasScenarioVerdict

---------------------------------------------------------------------------
(* run_demo.main: the five scripted demos on the shared instance, then the *)
(* interactive demo (specification SpecDemo)                               *)

\* test_concurrent_availability(num_requests=20)
DemoNumRequests == 20

InitDemo ==
    /\ is_available = [n \in ServiceNames |-> TRUE]
    /\ base_response_time = DefaultBaseResponseTime
    /\ failure_rate = DefaultFailureRate
    /\ changes = 0
    /\ NoRun
    /\ score_input = NoHealths
    /\ score_output = NoScore
    /\ NoPathCall
    /\ NoCall
    /\ NoBatch
    /\ NoDriver
    /\ demo_pc = "healthy"
    /\ demo_result = NoSummary
    /\ demo_load = NoConcurrent

\* result = fitness_functions.run_availability_tests(); print_result(result)
DemoRun(at, next) ==
    /\ demo_pc = at
    /\ \E r \in RunOutcomes : demo_result' = r
    /\ demo_pc' = next
    /\ UNCHANGED <<config, changes, run_vars, score_vars, path_vars,
                   call_vars, batch_vars, driver_vars, demo_load>>

\* a statement of a demo that writes base response times
DemoBaseTimes(at, next, payment, logistics) ==
    /\ demo_pc = at
    /\ base_response_time' =
           [base_response_time EXCEPT !["payment_service"] = payment,
                                      !["logistics_service"] = logistics]
    /\ demo_pc' = next
    /\ UNCHANGED <<is_available, failure_rate, changes, run_vars, score_vars,
                   path_vars, call_vars, batch_vars, driver_vars,
                   demo_result, demo_load>>

\* fitness_functions.simulate_service_failure(service_name, available) in a
\* demo
DemoAvailability(at, next, service_name, available) ==
    /\ demo_pc = at
    /\ is_available' = [is_available EXCEPT ![service_name] = available]
    /\ demo_pc' = next
    /\ UNCHANGED <<base_response_time, failure_rate, changes, run_vars,
                   score_vars, path_vars, call_vars, batch_vars, driver_vars,
                   demo_result, demo_load>>

demo_healthy_system == DemoRun("healthy", "degraded")

\* base_response_time = 2.5 and 2.0
DegradedSlow == DemoBaseTimes("degraded", "degraded_run", 250, 200)

\* mutant of DegradedReset: only payment_service is put back
DegradedResetPaymentOnly == DemoBaseTimes("degraded_reset", "critical", 30, 200)

\* "Reset for next demo": base_response_time = 0.3 and 0.25
DegradedReset == DemoBaseTimes("degraded_reset", "critical", 30, 25)

demo_degraded_system ==
    \/ DegradedSlow
    \/ DemoRun("degraded_run", "degraded_reset")
    \/ DegradedReset

demo_critical_failure ==
    \/ DemoAvailability("critical", "critical_run",
                        "group_buying_service", FALSE)
    \/ DemoRun("critical_run", "critical_reset")
    \/ DemoAvailability("critical_reset", "partial",
                        "group_buying_service", TRUE)

demo_partial_failure ==
    \/ DemoAvailability("partial", "partial_run", "payment_service", FALSE)
    \/ DemoRun("partial_run", "partial_reset")
    \/ DemoAvailability("partial_reset", "high_load", "payment_service", TRUE)

demo_high_load ==
    /\ demo_pc = "high_load"
    /\ \E c \in SuccessCounts(DemoNumRequests,
                              {h.is_healthy : h \in TaskHealths}) :
          demo_load' = ConcurrentResults(c, DemoNumRequests)
    /\ demo_pc' = "interactive"
    /\ UNCHANGED <<config, changes, run_vars, score_vars, path_vars,
                   call_vars, batch_vars, driver_vars, demo_result>>

\* choice "2": the service named by the user is toggled, if registered
InteractiveToggle(service_name) ==
    /\ demo_pc = "interactive"
    /\ changes < MaxConfigChanges
    /\ is_available' =
           IF service_name \in ServiceNames
           THEN [is_available EXCEPT ![service_name] = ~is_available[service_name]]
           ELSE is_available
    /\ changes' = changes + 1
    /\ UNCHANGED <<base_response_time, failure_rate, run_vars, score_vars,
                   path_vars, call_vars, batch_vars, driver_vars, demo_vars>>

\* choice "3": every service is set available
InteractiveReset ==
    /\ demo_pc = "interactive"
    /\ changes > 0
    /\ is_available' = [n \in ServiceNames |-> TRUE]
    /\ UNCHANGED <<base_response_time, failure_rate, changes, run_vars,
                   score_vars, path_vars, call_vars, batch_vars, driver_vars,
                   demo_vars>>

\* choice "4"
InteractiveExit ==
    /\ demo_pc = "interactive"
    /\ demo_pc' = "exited"
    /\ UNCHANGED <<config, changes, run_vars, score_vars, path_vars,
                   call_vars, batch_vars, driver_vars, demo_result, demo_load>>

interactive_demo ==
    \/ DemoRun("interactive", "interactive")
    \/ \E n \in CallerNames : InteractiveToggle(n)
    \/ InteractiveReset
    \/ InteractiveExit

NextDemo ==
    \/ demo_healthy_system
    \/ demo_degraded_system
    \/ demo_critical_failure
    \/ demo_partial_failure
    \/ demo_high_load
    \/ interactive_demo

SpecDemo == InitDemo /\ [][NextDemo]_vars

\* where main is when a scripted demo is about to start
DemoStarts == {"healthy", "degraded", "critical", "partial", "high_load"}

\* C22: in run_demo.main every scripted demo starts with all services
\* available and the default base latencies, each demo having put back what
\* it changed, and the registry after the last scripted demo (before the
\* user does anything in the interactive demo) is the registry main started
\* with.
C22_DemosRestoreRegistry ==
    /\ demo_pc \in DemoStarts \/ (demo_pc = "interactive" /\ changes = 0) =>
           /\ \A n \in ServiceNames : is_available[n]
           /\ base_response_time = DefaultBaseResponseTime
           /\ failure_rate = DefaultFailureRate
    /\ demo_pc # "off" =>
           /\ failure_rate = DefaultFailureRate
           /\ DOMAIN is_available = ServiceNames

\* the scripted demos are over, the last run was made with payment_service
\* down, and the registry is as it was
C22_Witness ==
    /\ demo_pc = "interactive"
    /\ changes = 0
    /\ demo_load.num_requests = DemoNumRequests
    /\ ~demo_result.critical_path_available
    /\ \A n \in ServiceNames : is_available[n]
    /\ base_response_time = DefaultBaseResponseTime

===========================================================================
